---- MODULE Spec2Model ----
(***************************************************************************)
(* A model of plawser's WebUtils (src/WebUtils.js): whichIsParent, the     *)
(* exclusive-selection controller (prepareElsAsSelectableBlocks), the fade  *)
(* animator (fadeIn, fadeOut, fadeInChildrenProgressively) and the          *)
(* slideshow paginator (prepareSlideshow); and of Player (src/Player.js).   *)
(*                                                                          *)
(* Indices are 0-based as in the source: arrays are functions over 0..n-1.  *)
(* style.opacity is a string, as in the DOM: "" when unset, otherwise the   *)
(* serialisation of a number of tenths ("0", "0.1", ..., "1").              *)
(***************************************************************************)
EXTENDS Integers, Sequences, FiniteSets, TLC

VARIABLES
    mode,            \* which utility the page is exercising: "select", "fade", "slides"
    \* ---- prepareElsAsSelectableBlocks: closure state
    defaultColor,    \* closure variable defaultColor
    mouseOverColor,  \* closure variable mouseOverColor
    selectedColor,   \* closure variable selectedColor
    activeIndex,     \* closure variable activeIndex
    borderColor,     \* els[i].style.borderColor, i in 0..NumEls-1
    over,            \* indices of els the pointer is currently over
    calls,           \* the onSelect invocations so far, in order
    clicks,          \* number of click events delivered so far
    \* ---- fadeIn / fadeOut: elements' style and the pending timeouts
    opacity,         \* element -> style.opacity (a string)
    display,         \* element -> style.display (a string)
    tasks,           \* the fades started so far, in order of their start
    \* ---- prepareSlideshow: the table built
    divs,            \* divs.length of the call
    numVisible,      \* closure variable numVisible
    fadeTimeStep,    \* closure variable fadeTimeStep of prepareSlideshow
    trEls,           \* trEls[i]: the row of page i
    lastClick,       \* the last click on a navigation button
    \* ---- fadeInChildrenProgressively: closure state
    numChildren,     \* domElChildren.length
    timeoutBetweenTextBlocks,  \* closure variable timeoutBetweenTextBlocks
    pauses,          \* the pauses between children started so far, in order
    callbackCalls,   \* number of invocations of the caller's callback
    \* ---- whichIsParent called on its own
    query,           \* the arguments of the call
    answer,          \* the value it returned
    \* ---- Player
    player,          \* the fields of a Player object
    returned,        \* what the last method call on it returned
    \* ---- all utilities
    thrown           \* the exceptions thrown so far out of handlers and methods

vars == <<mode, defaultColor, mouseOverColor, selectedColor, activeIndex,
          borderColor, over, calls, clicks, opacity, display, tasks,
          divs, numVisible, fadeTimeStep, trEls, lastClick,
          numChildren, timeoutBetweenTextBlocks, pauses, callbackCalls,
          query, answer, player, returned, thrown>>

selVars == <<defaultColor, mouseOverColor, selectedColor, activeIndex,
             borderColor, over, calls, clicks>>
styleVars == <<opacity, display, tasks>>
slideVars == <<divs, numVisible, fadeTimeStep, trEls, lastClick>>
progVars == <<numChildren, timeoutBetweenTextBlocks, pauses, callbackCalls>>
resolveVars == <<query, answer>>
playerVars == <<player, returned>>

(***************************************************************************)
(* Bounds of the model.                                                     *)
(***************************************************************************)
NumEls == 3        \* elements handed to prepareElsAsSelectableBlocks
MaxClicks == 4     \* click events delivered to a selection controller
MaxTasks == 3      \* fades started in one run
TickCap == 12      \* a fade's tick counter stops counting here
MaxDivs == 7       \* divs handed to prepareSlideshow
MaxParents == 3    \* elements of possibleParents in a call of whichIsParent
MaxSkillValue == 3 \* largest value of a skill of a Player
MaxXp == 3         \* largest XP of a Player

(***************************************************************************)
(* The DOM tree the selectable blocks live in.  Node 0 is the body, nodes   *)
(* 1..NumEls are the blocks els[0..NumEls-1], node NumEls+1+i is a child of *)
(* els[i] (what e.target often is), and the last node is a grandchild of    *)
(* els[0].                                                                  *)
(***************************************************************************)
NoNode == -1
Nodes == 0..(2 * NumEls + 1)
parentNode(n) ==
    IF n = 0 THEN NoNode
    ELSE IF n <= NumEls THEN 0
    ELSE IF n <= 2 * NumEls THEN n - NumEls
    ELSE NumEls + 1

RECURSIVE contains(_, _)
\* Node.contains: a is b or an ancestor of b.
contains(a, b) ==
    IF b = NoNode THEN FALSE
    ELSE IF a = b THEN TRUE
    ELSE contains(a, parentNode(b))

RECURSIVE whichIsParentFromLast(_, _, _)
whichIsParentFromLast(i, child, possibleParents) ==
    IF i >= Len(possibleParents) THEN -1
    ELSE LET later == whichIsParentFromLast(i + 1, child, possibleParents)
         IN IF later # -1 THEN later
            ELSE IF contains(possibleParents[i + 1], child) THEN i
            ELSE -1

RECURSIVE whichIsParentFrom(_, _, _)
whichIsParentFrom(i, child, possibleParents) ==
    IF i >= Len(possibleParents) THEN -1
    ELSE IF contains(possibleParents[i + 1], child) THEN i
    ELSE whichIsParentFrom(i + 1, child, possibleParents)

\* WebUtils.whichIsParent: index of the first element that contains child.
whichIsParent(child, possibleParents) ==
    whichIsParentFrom(0, child, possibleParents)

\* The array els of the call: the NumEls blocks, in document order.
els == [i \in 1..NumEls |-> i]

(***************************************************************************)
(* prepareElsAsSelectableBlocks                                             *)
(***************************************************************************)
\* An option that is absent (or falsy) is the empty string.
optionOr(option, default) == IF option # "" THEN option ELSE default

\* The colour options of a call: none given, all three given, and a
\* selectedColor that equals the default defaultColor.
ColorOptions ==
    {[defaultColor |-> "", mouseOverColor |-> "", selectedColor |-> ""],
     [defaultColor |-> "white", mouseOverColor |-> "yellow", selectedColor |-> "green"],
     [defaultColor |-> "", mouseOverColor |-> "", selectedColor |-> "black"]}

\* The accessor returned by prepareElsAsSelectableBlocks, on the closure's
\* activeIndex at the time of the call.
currentSelection(activeIndexNow) == activeIndexNow

\* onmouseenter, from the resolved index.
onmouseenterAlways(thisElsIndex, active, colors, mouseOver) ==
    [colors EXCEPT ![thisElsIndex] = mouseOver]
onmouseenterBorder(thisElsIndex, active, colors, mouseOver) ==
    IF active # thisElsIndex
    THEN [colors EXCEPT ![thisElsIndex] = mouseOver]
    ELSE colors

\* onmouseleave, from the resolved index.
onmouseleaveMutant(thisElsIndex, active, colors, default) ==
    colors
onmouseleaveBorder(thisElsIndex, active, colors, default) ==
    IF active # thisElsIndex
    THEN [colors EXCEPT ![thisElsIndex] = default]
    ELSE colors

\* onclick: unselect the previous one, then select this one.
onclickMutant(thisElsIndex, active, colors, default, selected) ==
    [colors EXCEPT ![thisElsIndex] = selected]
onclickBorder(thisElsIndex, active, colors, default, selected) ==
    LET unselected == IF active # -1
                      THEN [colors EXCEPT ![active] = default]
                      ELSE colors
    IN [unselected EXCEPT ![thisElsIndex] = selected]

\* onclick: the onSelect call of a newly selected block.  activeIndex is
\* assigned first; the callback records its argument and what the accessor
\* returns when called from inside it.
onclickAlwaysSelect(thisElsIndex, active, log) ==
    Append(log, [arg |-> thisElsIndex,
                 observed |-> currentSelection(thisElsIndex)])
onclickSelectFirst(thisElsIndex, active, log) ==
    IF active # thisElsIndex
    THEN Append(log, [arg |-> thisElsIndex,
                      observed |-> currentSelection(active)])
    ELSE log
onclickSelect(thisElsIndex, active, log) ==
    IF active # thisElsIndex
    THEN LET activeIndexNow == thisElsIndex
         IN Append(log, [arg |-> activeIndexNow,
                         observed |-> currentSelection(activeIndexNow)])
    ELSE log

\* No navigation button has been clicked.
NoClick == [page |-> -1, side |-> "", target |-> ""]

\* State of the variables a utility does not use.
SelIdle ==
    /\ defaultColor = "" /\ mouseOverColor = "" /\ selectedColor = ""
    /\ activeIndex = -1
    /\ borderColor = <<>>
    /\ over = {}
    /\ calls = <<>>
    /\ clicks = 0
StyleIdle ==
    /\ opacity = <<>>
    /\ display = <<>>
    /\ tasks = <<>>
SlideIdle ==
    /\ divs = 0 /\ numVisible = 0 /\ fadeTimeStep = 0
    /\ trEls = <<>>
    /\ lastClick = NoClick
ProgIdle ==
    /\ numChildren = 0 /\ timeoutBetweenTextBlocks = 0
    /\ pauses = <<>>
    /\ callbackCalls = 0
ResolveIdle ==
    /\ query = <<>>
    /\ answer = <<>>
PlayerIdle ==
    /\ player = <<>>
    /\ returned = <<>>

\* The page is about to call whichIsParent(child, possibleParents) with some
\* node and some array of nodes.
ParentArrays == UNION {[1..n -> Nodes] : n \in 0..MaxParents}
ResolveInit ==
    /\ mode = "resolve"
    /\ query \in [child : Nodes, possibleParents : ParentArrays]
    /\ answer = <<>>
    /\ thrown = {}
    /\ SelIdle
    /\ StyleIdle
    /\ SlideIdle
    /\ ProgIdle
    /\ PlayerIdle

\* The call returns.
callWhichIsParent ==
    /\ mode = "resolve"
    /\ answer = <<>>
    /\ answer' = <<whichIsParent(query.child, query.possibleParents)>>
    /\ UNCHANGED <<mode, query, selVars, styleVars, slideVars, progVars,
                   playerVars, thrown>>

ResolveNext == callWhichIsParent

ResolveSpec == ResolveInit /\ [][ResolveNext]_vars

\* The state after prepareElsAsSelectableBlocks(els, options) returned.
SelInit ==
    /\ mode = "select"
    /\ \E options \in ColorOptions :
          /\ defaultColor = optionOr(options.defaultColor, "black")
          /\ mouseOverColor = optionOr(options.mouseOverColor, "orange")
          /\ selectedColor = optionOr(options.selectedColor, "red")
    /\ activeIndex = -1
    /\ borderColor = [i \in 0..(NumEls - 1) |-> defaultColor]
    /\ over = {}
    /\ calls = <<>>
    /\ clicks = 0
    /\ thrown = {}
    /\ StyleIdle
    /\ SlideIdle
    /\ ProgIdle
    /\ ResolveIdle
    /\ PlayerIdle

\* A pointer-enter event whose target is inside one of the blocks.
onmouseenter(target) ==
    LET thisElsIndex == whichIsParent(target, els) IN
    /\ mode = "select"
    /\ thisElsIndex # -1
    /\ borderColor' = onmouseenterBorder(thisElsIndex, activeIndex,
                                         borderColor, mouseOverColor)
    /\ over' = over \cup {thisElsIndex}
    /\ UNCHANGED <<mode, defaultColor, mouseOverColor, selectedColor,
                   activeIndex, calls, clicks, styleVars, slideVars,
                   progVars, resolveVars, playerVars, thrown>>

\* A pointer-leave event whose target is inside one of the blocks.
onmouseleave(target) ==
    LET thisElsIndex == whichIsParent(target, els) IN
    /\ mode = "select"
    /\ thisElsIndex # -1
    /\ borderColor' = onmouseleaveBorder(thisElsIndex, activeIndex,
                                         borderColor, defaultColor)
    /\ over' = over \ {thisElsIndex}
    /\ UNCHANGED <<mode, defaultColor, mouseOverColor, selectedColor,
                   activeIndex, calls, clicks, styleVars, slideVars,
                   progVars, resolveVars, playerVars, thrown>>

\* A click event whose target is inside one of the blocks.
onclick(target) ==
    LET thisElsIndex == whichIsParent(target, els) IN
    /\ mode = "select"
    /\ clicks < MaxClicks
    /\ thisElsIndex # -1
    /\ borderColor' = onclickBorder(thisElsIndex, activeIndex, borderColor,
                                    defaultColor, selectedColor)
    /\ calls' = onclickSelect(thisElsIndex, activeIndex, calls)
    /\ activeIndex' = thisElsIndex
    /\ clicks' = clicks + 1
    /\ UNCHANGED <<mode, defaultColor, mouseOverColor, selectedColor, over,
                   styleVars, slideVars, progVars, resolveVars, playerVars,
                   thrown>>

SelNext ==
    \/ \E target \in Nodes : onmouseenter(target)
    \/ \E target \in Nodes : onmouseleave(target)
    \/ \E target \in Nodes : onclick(target)

SelSpec == SelInit /\ [][SelNext]_vars

\* The exception a handler or method throws when it reads a property of
\* undefined.
TypeError(thrower) == [thrower |-> thrower, error |-> "TypeError"]

\* A pointer-enter event whose target is inside none of the blocks:
\* thisElsIndex is -1 and els[-1] is undefined, so when the guard passes the
\* handler throws on els[thisElsIndex].style.
onmouseenterUnresolved(target) ==
    LET thisElsIndex == whichIsParent(target, els) IN
    /\ mode = "select"
    /\ thisElsIndex = -1
    /\ thrown' = IF activeIndex # thisElsIndex
                 THEN thrown \cup {TypeError("onmouseenter")}
                 ELSE thrown
    /\ UNCHANGED <<mode, selVars, styleVars, slideVars, progVars, resolveVars,
                   playerVars>>

\* A pointer-leave event whose target is inside none of the blocks.
onmouseleaveUnresolved(target) ==
    LET thisElsIndex == whichIsParent(target, els) IN
    /\ mode = "select"
    /\ thisElsIndex = -1
    /\ thrown' = IF activeIndex # thisElsIndex
                 THEN thrown \cup {TypeError("onmouseleave")}
                 ELSE thrown
    /\ UNCHANGED <<mode, selVars, styleVars, slideVars, progVars, resolveVars,
                   playerVars>>

\* A click event whose target is inside none of the blocks: the handler
\* resets the border of the active block and then throws on
\* els[thisElsIndex].style, before it updates activeIndex.
onclickUnresolved(target) ==
    LET thisElsIndex == whichIsParent(target, els) IN
    /\ mode = "select"
    /\ clicks < MaxClicks
    /\ thisElsIndex = -1
    /\ borderColor' = IF activeIndex # -1
                      THEN [borderColor EXCEPT ![activeIndex] = defaultColor]
                      ELSE borderColor
    /\ thrown' = thrown \cup {TypeError("onclick")}
    /\ clicks' = clicks + 1
    /\ UNCHANGED <<mode, defaultColor, mouseOverColor, selectedColor,
                   activeIndex, over, calls, styleVars, slideVars, progVars,
                   resolveVars, playerVars>>

\* The handlers with events of any target.
SelAnyNext ==
    \/ SelNext
    \/ \E target \in Nodes : onmouseenterUnresolved(target)
    \/ \E target \in Nodes : onmouseleaveUnresolved(target)
    \/ \E target \in Nodes : onclickUnresolved(target)

SelAnySpec == SelInit /\ [][SelAnyNext]_vars

(***************************************************************************)
(* Player (src/Player.js)                                                   *)
(*                                                                          *)
(* player holds the fields the constructor assigns: skills (a Map, here a   *)
(* function from the names it holds), xp and xpLevel.  A field that was     *)
(* never assigned is undefined: it is not in the domain of the record.      *)
(***************************************************************************)
SkillNames == {"cooking", "fishing"}
SkillDescriptions == {"d"}
SkillPoints == {1, 2}

\* The getLevelFromXp the game hands to the constructor.
getLevelFromXp(xp) == xp \div 2

\* Nothing was returned yet.
NoReturn == [method |-> "", args |-> <<>>, value |-> ""]

\* The Maps a Player may start with.
SkillMaps ==
    UNION {[names -> [description : SkillDescriptions,
                      value : 0..MaxSkillValue]] : names \in SUBSET SkillNames}

\* Map.set(key, value).
mapSet(map, key, value) ==
    [k \in DOMAIN map \cup {key} |-> IF k = key THEN value ELSE map[k]]

\* The state after new Player(name, initialSkills, initialXp,
\* getLevelFromXp, initialItems) returned.
PlayerInit ==
    /\ mode = "player"
    /\ \E initialSkills \in SkillMaps, initialXp \in 0..MaxXp :
          player = [skills |-> initialSkills, xp |-> initialXp,
                    xpLevel |-> getLevelFromXp(initialXp)]
    /\ returned = NoReturn
    /\ thrown = {}
    /\ SelIdle
    /\ StyleIdle
    /\ SlideIdle
    /\ ProgIdle
    /\ ResolveIdle

\* setXp(newXp).
setXp(newXp) ==
    /\ mode = "player"
    /\ player' = [player EXCEPT !.xp = newXp, !.xpLevel = getLevelFromXp(newXp)]
    /\ returned' = [method |-> "setXp", args |-> <<newXp>>, value |-> ""]
    /\ UNCHANGED <<mode, selVars, styleVars, slideVars, progVars, resolveVars,
                   thrown>>

\* addSkill(skillName, skillDescription, skillPoints).  The method reads
\* this.playerStats.customSkills: reading a property of an undefined
\* this.playerStats throws a TypeError.
addSkill(skillName, skillDescription, skillPoints) ==
    /\ mode = "player"
    /\ IF "playerStats" \notin DOMAIN player
       THEN /\ thrown' = thrown \cup {TypeError("addSkill")}
            /\ UNCHANGED <<player, returned>>
       ELSE IF skillName \in DOMAIN player.playerStats.customSkills
       THEN /\ returned' = [method |-> "addSkill",
                            args |-> <<skillName, skillDescription, skillPoints>>,
                            value |-> "alreadyExists"]
            /\ UNCHANGED <<player, thrown>>
       ELSE /\ player' = [player EXCEPT !.skills =
                    mapSet(@, skillName, [description |-> skillDescription,
                                          value |-> skillPoints])]
            /\ returned' = [method |-> "addSkill",
                            args |-> <<skillName, skillDescription, skillPoints>>,
                            value |-> "success"]
            /\ UNCHANGED thrown
    /\ UNCHANGED <<mode, selVars, styleVars, slideVars, progVars, resolveVars>>

\* improveSkill(skillName, improvePoints).
improveSkill(skillName, improvePoints) ==
    /\ mode = "player"
    /\ IF skillName \notin DOMAIN player.skills
       THEN /\ returned' = [method |-> "improveSkill",
                            args |-> <<skillName, improvePoints>>,
                            value |-> "doesNotExist"]
            /\ UNCHANGED player
       ELSE LET description == player.skills[skillName].description
                oldValue == player.skills[skillName].value
            IN /\ oldValue + improvePoints <= MaxSkillValue
               /\ player' = [player EXCEPT !.skills =
                       mapSet(@, skillName, [description |-> description,
                                             value |-> oldValue + improvePoints])]
               /\ returned' = [method |-> "improveSkill",
                               args |-> <<skillName, improvePoints>>,
                               value |-> "success"]
    /\ UNCHANGED <<mode, selVars, styleVars, slideVars, progVars, resolveVars,
                   thrown>>

PlayerNext ==
    \/ \E newXp \in 0..MaxXp : setXp(newXp)
    \/ \E skillName \in SkillNames, skillDescription \in SkillDescriptions,
          skillPoints \in SkillPoints :
          addSkill(skillName, skillDescription, skillPoints)
    \/ \E skillName \in SkillNames, improvePoints \in SkillPoints :
          improveSkill(skillName, improvePoints)

PlayerSpec == PlayerInit /\ [][PlayerNext]_vars

(***************************************************************************)
(* fadeIn / fadeOut                                                         *)
(*                                                                          *)
(* Opacity is counted in tenths.  style.opacity holds the serialisation of  *)
(* the number assigned, which the style rounds to the tenth the sum is      *)
(* meant to be ("0.3" for 0.2 + 0.1); parseFloat reads it back.  Every      *)
(* value a fade computes lies in -0.1 .. 1.1.                               *)
(***************************************************************************)
OpacityStrings ==
    <<"-0.1", "0", "0.1", "0.2", "0.3", "0.4", "0.5", "0.6", "0.7", "0.8",
      "0.9", "1", "1.1">>
Tenths == -1..11

\* parseFloat(style.opacity), in tenths.
parseFloat(s) == CHOOSE n \in Tenths : OpacityStrings[n + 2] = s
\* The string style.opacity holds after "style.opacity = n" (n in tenths).
cssNumber(n) == OpacityStrings[n + 2]

\* The default fadeTimeStep of fadeIn and fadeOut.
DefaultFadeTimeStep == 80
\* options.fadeTimeStep of a call; 0 stands for an absent option.
FadeTimeStepOptions == {0, 10}
fadeTimeStepOf(option) == IF option # 0 THEN option ELSE DefaultFadeTimeStep

\* "if (! domEl.style.opacity) domEl.style.opacity = 1.0"
initOpacityZero(s) == IF s = "" THEN cssNumber(0) ELSE s
initOpacity(s) == IF s = "" THEN cssNumber(10) ELSE s

\* The body of fadeIn's timeout, on the element's opacity: the opacity it
\* writes and whether it is the final step (the callback runs).
fadeInStepNoClamp(s) ==
    LET newOpacity == parseFloat(s) + 1
    IN IF newOpacity > 10
       THEN [opacity |-> cssNumber(11), final |-> TRUE]
       ELSE [opacity |-> cssNumber(newOpacity), final |-> FALSE]
fadeInStepNeverFinal(s) ==
    LET newOpacity == parseFloat(s) + 1
    IN IF newOpacity > 10
       THEN [opacity |-> cssNumber(10), final |-> FALSE]
       ELSE [opacity |-> cssNumber(newOpacity), final |-> FALSE]
fadeInStep(s) ==
    LET newOpacity == parseFloat(s) + 1
    IN IF newOpacity > 10
       THEN [opacity |-> cssNumber(10), final |-> TRUE]
       ELSE [opacity |-> cssNumber(newOpacity), final |-> FALSE]

\* The body of fadeOut's timeout.
fadeOutStepNoClamp(s) ==
    LET newOpacity == parseFloat(s) - 1
    IN IF newOpacity < 0
       THEN [opacity |-> cssNumber(-1), final |-> TRUE]
       ELSE [opacity |-> cssNumber(newOpacity), final |-> FALSE]
fadeOutStep(s) ==
    LET newOpacity == parseFloat(s) - 1
    IN IF newOpacity < 0
       THEN [opacity |-> cssNumber(0), final |-> TRUE]
       ELSE [opacity |-> cssNumber(newOpacity), final |-> FALSE]

fadeStep(dir, s) == IF dir = "in" THEN fadeInStep(s) ELSE fadeOutStep(s)

\* A callback that only counts its invocations (the caller's own callback).
PlainCallback == [kind |-> "plain", index |-> -1]

\* The effect of a fade's callback on the elements' styles.  The callbacks
\* of the slideshow's buttons hide their row and show the neighbour.
runCallbackKeepOpacity(callback, style) ==
    IF callback.kind = "left" \/ callback.kind = "right"
    THEN LET other == IF callback.kind = "left"
                      THEN callback.index - 1 ELSE callback.index + 1
             hidden == [style.display EXCEPT ![callback.index] = "none"]
         IN [opacity |-> style.opacity,
             display |-> [hidden EXCEPT ![other] = "inline"]]
    ELSE style
runCallback(callback, style) ==
    IF callback.kind = "left" \/ callback.kind = "right"
    THEN LET other == IF callback.kind = "left"
                      THEN callback.index - 1 ELSE callback.index + 1
             hidden == [style.display EXCEPT ![callback.index] = "none"]
         IN [opacity |-> [style.opacity EXCEPT ![other] = cssNumber(10)],
             display |-> [hidden EXCEPT ![other] = "inline"]]
    ELSE style

\* The task a call of fadeIn / fadeOut leaves behind: one pending timeout.
\* completions counts the runs of its callback.  opacityAtCall and ticks
\* record the history of a fade that is the only fade ever started on its
\* element: the opacity the element had at the call and the number of
\* timeouts of the fade that have fired.  For every other fade they are
\* NotSingle and TickCap.
NotSingle == "n/a"
newTask(domEl, dir, callback, option, opacityAtCall, ticks) ==
    [domEl |-> domEl, dir |-> dir, callback |-> callback,
     fadeTimeStep |-> fadeTimeStepOf(option), pending |-> TRUE,
     opacityAtCall |-> opacityAtCall, ticks |-> ticks, completions |-> 0]

\* The fades started on domEl so far.
fadesOn(domEl) == {t \in DOMAIN tasks : tasks[t].domEl = domEl}

\* fadeIn(domEl, callback, options) / fadeOut(domEl, callback, options).
startFade(domEl, dir, callback, option) ==
    /\ Len(tasks) < MaxTasks
    /\ opacity' = [opacity EXCEPT ![domEl] = initOpacity(opacity[domEl])]
    /\ tasks' = Append(
            [t \in DOMAIN tasks |->
                IF tasks[t].domEl = domEl
                THEN [tasks[t] EXCEPT !.opacityAtCall = NotSingle,
                                      !.ticks = TickCap]
                ELSE tasks[t]],
            IF fadesOn(domEl) = {}
            THEN newTask(domEl, dir, callback, option, opacity[domEl], 0)
            ELSE newTask(domEl, dir, callback, option, NotSingle, TickCap))

Min(a, b) == IF a < b THEN a ELSE b

\* The callback fadeInRecursive(i) of fadeInChildrenProgressively passes to
\* fadeIn, and the pauses started once a fade's callback has run: that
\* callback sets the timeout that calls fadeInRecursive(i+1).
pauseCallback(i) == [kind |-> "pause", index |-> i]
pausesAfterSkip(callback) ==
    IF callback.kind = "pause"
    THEN Append(pauses, [next |-> callback.index + 2,
                         delay |-> timeoutBetweenTextBlocks,
                         pending |-> TRUE])
    ELSE pauses
pausesAfter(callback) ==
    IF callback.kind = "pause"
    THEN Append(pauses, [next |-> callback.index + 1,
                         delay |-> timeoutBetweenTextBlocks,
                         pending |-> TRUE])
    ELSE pauses

\* The styles after the timeout of a fade wrote its step, before it runs
\* the callback: only style.opacity of the fade's element is assigned.
tickStyleHiding(task, step) ==
    [opacity |-> [opacity EXCEPT ![task.domEl] = step.opacity],
     display |-> IF step.final /\ task.dir = "out"
                 THEN [display EXCEPT ![task.domEl] = "none"]
                 ELSE display]
tickStyle(task, step) ==
    [opacity |-> [opacity EXCEPT ![task.domEl] = step.opacity],
     display |-> display]

\* The timeout of task t fires.
timeout(t) ==
    /\ t \in DOMAIN tasks
    /\ tasks[t].pending
    /\ LET task == tasks[t]
           step == fadeStep(task.dir, opacity[task.domEl])
           stepped == tickStyle(task, step)
           after == IF step.final THEN runCallback(task.callback, stepped)
                    ELSE stepped
       IN /\ opacity' = after.opacity
          /\ display' = after.display
          /\ tasks' = [tasks EXCEPT ![t] =
                [task EXCEPT !.pending = ~step.final,
                             !.fadeTimeStep = DefaultFadeTimeStep,
                             !.ticks = Min(task.ticks + 1, TickCap),
                             !.completions = IF step.final THEN @ + 1 ELSE @]]
          /\ pauses' = IF step.final THEN pausesAfter(task.callback) ELSE pauses
    /\ UNCHANGED <<mode, selVars, slideVars, numChildren,
                   timeoutBetweenTextBlocks, callbackCalls, resolveVars,
                   playerVars, thrown>>

\* The page calls fadeIn on one of its elements.
fadeIn(domEl, option) ==
    /\ mode = "fade"
    /\ startFade(domEl, "in", PlainCallback, option)
    /\ UNCHANGED <<mode, display, selVars, slideVars, progVars, resolveVars,
                   playerVars, thrown>>

\* The page calls fadeOut on one of its elements.
fadeOut(domEl, option) ==
    /\ mode = "fade"
    /\ startFade(domEl, "out", PlainCallback, option)
    /\ UNCHANGED <<mode, display, selVars, slideVars, progVars, resolveVars,
                   playerVars, thrown>>

\* The elements the page fades, and the opacities they may start with.
FadeEls == {0}
InitialOpacities == {"", "0", "1"}

FadeInit ==
    /\ mode = "fade"
    /\ opacity \in [FadeEls -> InitialOpacities]
    /\ display = [e \in FadeEls |-> ""]
    /\ tasks = <<>>
    /\ thrown = {}
    /\ SelIdle
    /\ SlideIdle
    /\ ProgIdle
    /\ ResolveIdle
    /\ PlayerIdle

FadeNext ==
    \/ \E domEl \in FadeEls, option \in FadeTimeStepOptions : fadeIn(domEl, option)
    \/ \E domEl \in FadeEls, option \in FadeTimeStepOptions : fadeOut(domEl, option)
    \/ \E t \in 1..MaxTasks : timeout(t)

FadeSpec == FadeInit /\ [][FadeNext]_vars

\* The host scheduler keeps firing every pending timeout.
FadeFair == \A t \in 1..MaxTasks : WF_vars(timeout(t))
FadeFairSpec == FadeSpec /\ FadeFair

\* A page with two elements, shown or hidden and with a border, that fades
\* one of them: the other one stands by.
FadePairEls == {0, 1}
FadePairInit ==
    /\ mode = "fade"
    /\ opacity \in [FadePairEls -> InitialOpacities]
    /\ display \in [FadePairEls -> {"", "none"}]
    /\ tasks = <<>>
    /\ defaultColor = "" /\ mouseOverColor = "" /\ selectedColor = ""
    /\ activeIndex = -1
    /\ borderColor = [e \in FadePairEls |-> "black"]
    /\ over = {}
    /\ calls = <<>>
    /\ clicks = 0
    /\ thrown = {}
    /\ SlideIdle
    /\ ProgIdle
    /\ ResolveIdle
    /\ PlayerIdle

FadePairNext ==
    \/ \E domEl \in FadePairEls, option \in FadeTimeStepOptions :
          fadesOn(1 - domEl) = {} /\ fadeIn(domEl, option)
    \/ \E domEl \in FadePairEls, option \in FadeTimeStepOptions :
          fadesOn(1 - domEl) = {} /\ fadeOut(domEl, option)
    \/ \E t \in 1..MaxTasks : timeout(t)

FadePairSpec == FadePairInit /\ [][FadePairNext]_vars

(***************************************************************************)
(* fadeInChildrenProgressively                                              *)
(*                                                                          *)
(* The children of domEl are the elements 0..numChildren-1.                 *)
(***************************************************************************)
\* options.fadeTimeout; 0 stands for an absent option.
DefaultTimeoutBetweenTextBlocks == 2000
FadeTimeoutOptions == {0, 500}
\* timeoutBetweenTextBlocks before fadeInChildrenProgressively is called.
NotCalled == -1

\* fadeInRecursive(i): the caller's callback past the last child, otherwise
\* fadeIn on child i, called without options.
fadeInRecursive(i) ==
    IF i >= numChildren
    THEN /\ callbackCalls' = callbackCalls + 1
         /\ UNCHANGED styleVars
    ELSE /\ startFade(i, "in", pauseCallback(i), 0)
         /\ UNCHANGED <<display, callbackCalls>>

\* The page calls fadeInChildrenProgressively(domEl, callback, options).
fadeInChildrenProgressively(option) ==
    /\ mode = "children"
    /\ timeoutBetweenTextBlocks = NotCalled
    /\ timeoutBetweenTextBlocks' =
            IF option # 0 THEN option ELSE DefaultTimeoutBetweenTextBlocks
    /\ fadeInRecursive(0)
    /\ UNCHANGED <<mode, selVars, slideVars, numChildren, pauses, resolveVars,
                   playerVars, thrown>>

\* The timeout of pause p fires.
pauseTimeout(p) ==
    /\ p \in DOMAIN pauses
    /\ pauses[p].pending
    /\ pauses' = [pauses EXCEPT ![p].pending = FALSE]
    /\ fadeInRecursive(pauses[p].next)
    /\ UNCHANGED <<mode, selVars, slideVars, numChildren,
                   timeoutBetweenTextBlocks, resolveVars, playerVars, thrown>>

ProgInit ==
    /\ mode = "children"
    /\ numChildren \in 0..MaxTasks
    /\ opacity \in [0..(numChildren - 1) -> InitialOpacities]
    /\ display = [e \in 0..(numChildren - 1) |-> ""]
    /\ tasks = <<>>
    /\ timeoutBetweenTextBlocks = NotCalled
    /\ pauses = <<>>
    /\ callbackCalls = 0
    /\ thrown = {}
    /\ SelIdle
    /\ SlideIdle
    /\ ResolveIdle
    /\ PlayerIdle

ProgNext ==
    \/ \E option \in FadeTimeoutOptions : fadeInChildrenProgressively(option)
    \/ \E t \in 1..MaxTasks : timeout(t)
    \/ \E p \in 1..MaxTasks : pauseTimeout(p)

ProgSpec == ProgInit /\ [][ProgNext]_vars

\* The host scheduler keeps firing every pending timeout.
ProgFair ==
    /\ \A t \in 1..MaxTasks : WF_vars(timeout(t))
    /\ \A p \in 1..MaxTasks : WF_vars(pauseTimeout(p))
ProgFairSpec == ProgSpec /\ ProgFair

(***************************************************************************)
(* prepareSlideshow                                                         *)
(*                                                                          *)
(* A row is its left button, its content cells (tds) and its right button.  *)
(* A content cell holds a div (its index in divs) or nothing.               *)
(***************************************************************************)
NoDiv == -1

\* The default numVisible and fadeTimeStep of prepareSlideshow.
DefaultNumVisible == 3
DefaultSlideFadeTimeStep == 10
\* options.numVisible and options.fadeTimeStep; 0 stands for an absent option.
NumVisibleOptions == {0, 1, 2}
SlideFadeTimeStepOptions == {0, 40}

\* `${i}`, the hidden text of a button, and parseFloat of it.
IndexStrings ==
    <<"0", "1", "2", "3", "4", "5", "6", "7", "8", "9", "10", "11", "12">>
indexTextNext(i) == IndexStrings[i + 2]
indexText(i) == IndexStrings[i + 1]
parseIndex(text) ==
    CHOOSE i \in 0..(Len(IndexStrings) - 1) : IndexStrings[i + 1] = text

\* tdEl.appendChild(divs[divIndex]); trEl.appendChild(tdEl): the div leaves
\* the cell that held it and a new cell holding it ends the row being built.
\* built.rows are the rows built so far, built.tds the content cells of the
\* row in work.
detach(cells, div) ==
    SubSeq([c \in DOMAIN cells |-> IF cells[c] = div THEN NoDiv ELSE cells[c]],
           1, Len(cells))
appendChildCopy(built, div) ==
    [rows |-> built.rows, tds |-> Append(built.tds, div)]
appendChild(built, div) ==
    [rows |-> SubSeq([r \in DOMAIN built.rows |->
                         [built.rows[r] EXCEPT !.tds = detach(@, div)]],
                     1, Len(built.rows)),
     tds |-> Append(detach(built.tds, div), div)]

RECURSIVE contentLoop(_, _, _)
\* "while(divIndex < divs.length)".  (Len(built.tds) >= 0 is always true: it
\* makes TLC evaluate the cells built so far before the next iteration.)
contentLoop(built, divIndex, n) ==
    IF divIndex < n /\ Len(built.tds) >= 0
    THEN contentLoop(appendChild(built, divIndex), divIndex + 1, n)
    ELSE built

\* "if (i>=divs.length/numVisible-1)", in integers.
rightDisabledFloor(i, n, nv) == i >= (n \div nv) - 1
rightDisabled(i, n, nv) == (i + 1) * nv >= n

\* "if (i==0)"
leftDisabled(i) == i = 0

RECURSIVE pageLoop(_, _, _, _)
\* "for (let i=0; i<divs.length / numVisible; i++)": the rows trEls holds at
\* the end, as a sequence (row i is at position i + 1).
pageLoop(rows, i, n, nv) ==
    IF i * nv < n
    THEN LET built == contentLoop([rows |-> rows, tds |-> <<>>], i * nv, n)
             trEl == [tds |-> built.tds,
                      leftMarker |-> indexText(i),
                      leftDisabled |-> leftDisabled(i),
                      rightMarker |-> indexText(i),
                      rightDisabled |-> rightDisabled(i, n, nv)]
         IN pageLoop(Append(built.rows, trEl), i + 1, n, nv)
    ELSE rows

\* The array trEls, 0-based.
rowsOf(n, nv) ==
    LET rows == pageLoop(<<>>, 0, n, nv)
    IN [i \in 0..(Len(rows) - 1) |-> rows[i + 1]]

\* The state after prepareSlideshow(divs, options) returned.
SlideInit ==
    /\ mode = "slides"
    /\ divs \in 0..MaxDivs
    /\ \E nv \in NumVisibleOptions : numVisible = IF nv # 0 THEN nv ELSE DefaultNumVisible
    /\ \E fts \in SlideFadeTimeStepOptions :
          fadeTimeStep = IF fts # 0 THEN fts ELSE DefaultSlideFadeTimeStep
    /\ trEls = rowsOf(divs, numVisible)
    /\ display = [i \in DOMAIN trEls |-> IF i > 0 THEN "none" ELSE ""]
    /\ opacity = [i \in DOMAIN trEls |-> ""]
    /\ tasks = <<>>
    /\ lastClick = NoClick
    /\ thrown = {}
    /\ SelIdle
    /\ ProgIdle
    /\ ResolveIdle
    /\ PlayerIdle

\* The hidden text the handler reads: from the button's second child when
\* e.target is the button, from the arrow span's next sibling when e.target
\* is the arrow span.  Both are the hidden span of the button clicked.
buttonChildren(page, side) ==
    IF side = "left" THEN <<"&larr;", trEls[page].leftMarker>>
    ELSE <<"&rarr;", trEls[page].rightMarker>>
markerRead(page, side, target) ==
    LET children == buttonChildren(page, side)
        arrowSpan == 0
    IN IF target = "button"
       THEN children[1 + 1]            \* e.target.children.item(1)
       ELSE children[(arrowSpan + 1) + 1]  \* e.target.nextSibling

\* The user clicks a navigation button of a row that is shown; a disabled
\* button raises no click event.
buttonClick(page, side, target) ==
    /\ mode = "slides"
    /\ page \in DOMAIN trEls
    /\ display[page] # "none"
    /\ ~(IF side = "left" THEN trEls[page].leftDisabled
                          ELSE trEls[page].rightDisabled)
    /\ LET trElIndexForThisButton == parseIndex(markerRead(page, side, target))
       IN startFade(trElIndexForThisButton, "out",
                    [kind |-> side, index |-> trElIndexForThisButton],
                    fadeTimeStep)
    /\ lastClick' = [page |-> page, side |-> side, target |-> target]
    /\ UNCHANGED <<mode, display, selVars, divs, numVisible, fadeTimeStep, trEls,
                   progVars, resolveVars, playerVars, thrown>>

leftButtonClick(page, target) == buttonClick(page, "left", target)
rightButtonClick(page, target) == buttonClick(page, "right", target)

ClickTargets == {"button", "span"}

SlideNext ==
    \/ \E page \in 0..MaxDivs, target \in ClickTargets : leftButtonClick(page, target)
    \/ \E page \in 0..MaxDivs, target \in ClickTargets : rightButtonClick(page, target)
    \/ \E t \in 1..MaxTasks : timeout(t)

SlideSpec == SlideInit /\ [][SlideNext]_vars

(***************************************************************************)
(* Properties of the selection controller.                                  *)
(***************************************************************************)
ColorsDistinct ==
    /\ defaultColor # mouseOverColor
    /\ defaultColor # selectedColor
    /\ mouseOverColor # selectedColor

\* The blocks that show the selected colour.
ShownSelected == {i \in DOMAIN borderColor : borderColor[i] = selectedColor}

\* C1: with pairwise distinct colours, at most one block has
\* borderColor = selectedColor, and when currentSelection() is not -1 that
\* block is exactly the one at index currentSelection().
C1_ExclusiveSelection ==
    (mode = "select" /\ ColorsDistinct) =>
        /\ Cardinality(ShownSelected) <= 1
        /\ currentSelection(activeIndex) # -1 =>
               ShownSelected = {currentSelection(activeIndex)}

\* A second block was selected while the pointer is over some block.
C1_Witness ==
    /\ mode = "select" /\ ColorsDistinct
    /\ Len(calls) >= 2
    /\ over # {}
    /\ ShownSelected = {activeIndex}

\* C2: every block that is not the active one has borderColor = defaultColor
\* unless the pointer is currently over it.
C2_NonActiveDefault ==
    mode = "select" =>
        \A i \in DOMAIN borderColor :
            (i # activeIndex /\ i \notin over) => borderColor[i] = defaultColor

\* A block that was selected and hovered has been left and unselected, while
\* the pointer is over another block that is not the active one.
C2_Witness ==
    /\ mode = "select"
    /\ Len(calls) >= 2
    /\ calls[1].arg \notin over
    /\ calls[1].arg # activeIndex
    /\ \E i \in over : i # activeIndex /\ borderColor[i] = mouseOverColor

\* C3: a click that changes the active index calls onSelect exactly once,
\* with the new index; a click on the already-active block, and every
\* pointer-enter/leave, calls it not at all.
C3_OnSelectOncePerChange ==
    [][mode = "select" =>
          IF clicks' # clicks /\ activeIndex' # activeIndex
          THEN /\ Len(calls') = Len(calls) + 1
               /\ SubSeq(calls', 1, Len(calls)) = calls
               /\ calls'[Len(calls')].arg = activeIndex'
          ELSE calls' = calls]_vars

\* Block i was clicked and then clicked again: one onSelect call in total.
C3_Witness ==
    /\ mode = "select"
    /\ clicks = 2
    /\ Len(calls) = 1
    /\ calls[1].arg = activeIndex

\* C4: the accessor called from inside onSelect(i) returns i, the new index.
C4_SelectSeesNewIndex ==
    mode = "select" =>
        /\ \A k \in 1..Len(calls) : calls[k].observed = calls[k].arg
        /\ Len(calls) > 0 => calls[Len(calls)].arg = currentSelection(activeIndex)

\* onSelect ran for a click that replaced an earlier selection.
C4_Witness ==
    /\ mode = "select"
    /\ Len(calls) >= 2
    /\ calls[2].observed = calls[2].arg
    /\ calls[2].observed # calls[1].arg

(***************************************************************************)
(* Properties of the fade animator.                                         *)
(***************************************************************************)
\* Task t is the only fade ever started on its element.
SingleFade(t) == fadesOn(tasks[t].domEl) = {t}

\* C5: a single fadeIn started at opacity 0.0 has opacity ticks/10 up to its
\* 10th tick, exactly 1.0 from the 10th tick on, never more than 1.0, and
\* runs its callback at most once, exactly once when it has ended.
C5_FadeInFromZero ==
    mode = "fade" =>
        \A t \in DOMAIN tasks :
            (tasks[t].dir = "in" /\ tasks[t].opacityAtCall = "0" /\ SingleFade(t)) =>
                LET now == parseFloat(opacity[tasks[t].domEl]) IN
                /\ now <= 10
                /\ tasks[t].ticks < 10 => now = tasks[t].ticks
                /\ tasks[t].ticks >= 10 => now = 10
                /\ tasks[t].completions <= 1
                /\ tasks[t].completions = 1 <=> ~tasks[t].pending

\* A single fadeIn from 0.0 has ended, with its callback run.
C5_Witness ==
    /\ mode = "fade"
    /\ Len(tasks) = 1
    /\ tasks[1].dir = "in" /\ tasks[1].opacityAtCall = "0"
    /\ tasks[1].ticks > 10
    /\ ~tasks[1].pending /\ tasks[1].completions = 1
    /\ opacity[tasks[1].domEl] = "1"

\* C6: a single fadeOut started at opacity 1.0, or unset, has opacity
\* (10 - ticks)/10 up to its 10th tick, exactly 0.0 from the 10th tick on,
\* never less than 0.0, and runs its callback exactly once.
C6_FadeOutFromOne ==
    mode = "fade" =>
        \A t \in DOMAIN tasks :
            (tasks[t].dir = "out" /\ tasks[t].opacityAtCall \in {"", "1"}
                /\ SingleFade(t)) =>
                LET now == parseFloat(opacity[tasks[t].domEl]) IN
                /\ now >= 0
                /\ tasks[t].ticks < 10 => now = 10 - tasks[t].ticks
                /\ tasks[t].ticks >= 10 => now = 0
                /\ tasks[t].completions <= 1
                /\ tasks[t].completions = 1 <=> ~tasks[t].pending

\* A single fadeOut of an element whose opacity was unset has ended.
C6_Witness ==
    /\ mode = "fade"
    /\ Len(tasks) = 1
    /\ tasks[1].dir = "out" /\ tasks[1].opacityAtCall = ""
    /\ tasks[1].ticks > 10
    /\ ~tasks[1].pending /\ tasks[1].completions = 1
    /\ opacity[tasks[1].domEl] = "0"

Started(t) == t \in DOMAIN tasks
Completed(t) == t \in DOMAIN tasks /\ tasks[t].completions >= 1
\* A fade of the other direction is pending on the element of fade t.
OpposedNow(t) ==
    /\ t \in DOMAIN tasks
    /\ \E u \in DOMAIN tasks :
          /\ tasks[u].domEl = tasks[t].domEl
          /\ tasks[u].dir # tasks[t].dir
          /\ tasks[u].pending

\* C7, as claimed: every started fade eventually runs its callback, also when
\* other fades animate its element.
C7_EveryFadeCompletes ==
    \A t \in 1..MaxTasks : Started(t) ~> Completed(t)

\* C7, amended: every started fade eventually runs its callback or has a
\* pending fade of the other direction on its element.
C7_UnopposedFadeCompletes ==
    \A t \in 1..MaxTasks : Started(t) ~> (Completed(t) \/ OpposedNow(t))

\* Two fades of the same direction on one element have both run their
\* callbacks.
C7_Witness ==
    /\ mode = "fade"
    /\ \E t, u \in DOMAIN tasks :
          /\ t # u
          /\ tasks[t].domEl = tasks[u].domEl
          /\ tasks[t].dir = tasks[u].dir
          /\ Completed(t) /\ Completed(u)
    /\ \A t \in DOMAIN tasks : tasks[t].dir = tasks[1].dir

\* C8: under any interleaving of the timeouts of fadeIn and fadeOut tasks on
\* one element, its opacity is one of 0.0, 0.1, ..., 1.0.
C8_OpacityInRange ==
    mode = "fade" =>
        \A e \in DOMAIN opacity :
            fadesOn(e) # {} => opacity[e] \in {cssNumber(n) : n \in 0..10}

\* A fadeIn and a fadeOut are both pending on one element, which they have
\* moved between them to 0.5.
C8_Witness ==
    /\ mode = "fade"
    /\ \E t, u \in DOMAIN tasks :
          /\ tasks[t].domEl = tasks[u].domEl
          /\ tasks[t].dir = "in" /\ tasks[u].dir = "out"
          /\ tasks[t].pending /\ tasks[u].pending
          /\ opacity[tasks[t].domEl] = "0.5"

(***************************************************************************)
(* Properties of the slideshow.                                             *)
(***************************************************************************)
NumPages == Cardinality(DOMAIN trEls)
LastPage == NumPages - 1
CeilDiv(n, k) == (n + k - 1) \div k

RECURSIVE withoutEmpty(_)
\* The divs a sequence of content cells holds, in order.
withoutEmpty(tds) ==
    IF tds = <<>> THEN <<>>
    ELSE IF Head(tds) = NoDiv THEN withoutEmpty(Tail(tds))
    ELSE <<Head(tds)>> \o withoutEmpty(Tail(tds))

\* The content elements of page i, in order.
PageContent(i) == withoutEmpty(trEls[i].tds)

RECURSIVE ConcatPages(_)
\* The content of pages i, i+1, ..., in page order.
ConcatPages(i) ==
    IF i > LastPage THEN <<>> ELSE PageContent(i) \o ConcatPages(i + 1)

\* The cells, of any row, that hold div d.
CellsHolding(d) ==
    {rc \in (DOMAIN trEls) \X (1..MaxDivs) :
        rc[2] <= Len(trEls[rc[1]].tds) /\ trEls[rc[1]].tds[rc[2]] = d}

\* C9: there are ceil(N/k) pages; every page holds exactly k content
\* elements, the last one N mod k (k if that is 0); each content element is
\* in exactly one page; the pages' contents in page order are the original
\* sequence.
C9_PaginationPartition ==
    mode = "slides" =>
        /\ NumPages = CeilDiv(divs, numVisible)
        /\ \A i \in DOMAIN trEls :
              Len(PageContent(i)) =
                  IF i < LastPage \/ divs % numVisible = 0
                  THEN numVisible ELSE divs % numVisible
        /\ \A d \in 0..(divs - 1) : Cardinality(CellsHolding(d)) = 1
        /\ ConcatPages(0) = [d \in 1..divs |-> d - 1]

\* 7 divs, 3 to a page: pages of 3, 3 and 1; the second page is shown.
C9_Witness ==
    /\ mode = "slides"
    /\ divs = 7 /\ numVisible = 3
    /\ NumPages = 3
    /\ display[0] = "none" /\ display[1] = "inline"
    /\ PageContent(0) = <<0, 1, 2>>
    /\ PageContent(1) = <<3, 4, 5>>
    /\ PageContent(2) = <<6>>

\* The button of page i on the given side is disabled.
Disabled(i, side) ==
    IF side = "left" THEN trEls[i].leftDisabled ELSE trEls[i].rightDisabled

\* C10: with at least one div, the left button of page 0 and the right button
\* of the last page are disabled and no fade was ever started by them; every
\* other button is enabled, and a click on a button starts a fade-out of the
\* row of that button, whose callback is that button's.
C10_NavigationBoundaries ==
    /\ [](mode = "slides" /\ divs >= 1 =>
            /\ \A i \in DOMAIN trEls :
                  /\ Disabled(i, "left") <=> i = 0
                  /\ Disabled(i, "right") <=> i = CeilDiv(divs, numVisible) - 1
            /\ \A t \in DOMAIN tasks :
                  ~Disabled(tasks[t].callback.index, tasks[t].callback.kind))
    /\ [][mode = "slides" /\ Len(tasks') # Len(tasks) =>
            /\ ~Disabled(lastClick'.page, lastClick'.side)
            /\ display[lastClick'.page] # "none"
            /\ Len(tasks') = Len(tasks) + 1
            /\ LET new == tasks'[Len(tasks')] IN
                  /\ new.domEl = lastClick'.page
                  /\ new.dir = "out"
                  /\ new.pending
                  /\ new.callback = [kind |-> lastClick'.side,
                                     index |-> lastClick'.page]]_vars

\* The right button of the page before the last one has faded its row out,
\* and then the left button of the last page has started a fade-out of the
\* last row.
C10_Witness ==
    /\ mode = "slides"
    /\ NumPages >= 2
    /\ Len(tasks) = 2
    /\ tasks[1].callback = [kind |-> "right", index |-> LastPage - 1]
    /\ tasks[1].completions = 1
    /\ tasks[2].callback = [kind |-> "left", index |-> LastPage]
    /\ tasks[2].domEl = LastPage /\ tasks[2].dir = "out"
    /\ lastClick.page = LastPage

\* The rows that are shown.
ShownRows == {i \in DOMAIN display : display[i] # "none"}

\* The row a slideshow fade shows when it completes.
Incoming(task) ==
    IF task.callback.kind = "left" THEN task.callback.index - 1
    ELSE task.callback.index + 1

\* The fades whose timeout is pending.
PendingFades == {t \in DOMAIN tasks : tasks[t].pending}

\* C11: in every state reached by clicks on enabled buttons of shown rows and
\* fade ticks, exactly one row has display other than none (given at least
\* one div, so that there is a row).
C11_ExactlyOneRowShown ==
    (mode = "slides" /\ divs >= 1) => Cardinality(ShownRows) = 1

\* C12: while one fade is in flight and it is the only one, its ticks leave
\* every row but its own unchanged and never change display before the last
\* one; the last one hides its row and shows the neighbour on the side of the
\* button clicked, with opacity 1.0, leaving all other rows unchanged.  A
\* click made while no fade is in flight starts a fade-out of its own row.
C12_SingleTransition ==
    [][mode = "slides" =>
        /\ (PendingFades = {} /\ Len(tasks') = Len(tasks) + 1) =>
              /\ tasks'[Len(tasks')].domEl = lastClick'.page
              /\ tasks'[Len(tasks')].dir = "out"
              /\ tasks'[Len(tasks')].callback.kind = lastClick'.side
              /\ display' = display
        /\ \A t \in DOMAIN tasks :
              (PendingFades = {t} /\ Len(tasks') = Len(tasks)) =>
                  LET out == tasks[t].domEl
                      in == IF tasks[t].callback.kind = "left"
                            THEN out - 1 ELSE out + 1
                  IN /\ \A r \in DOMAIN display \ {out, in} :
                            display'[r] = display[r] /\ opacity'[r] = opacity[r]
                     /\ IF tasks'[t].completions > tasks[t].completions
                        THEN /\ display'[out] = "none"
                             /\ display'[in] # "none"
                             /\ opacity'[in] = cssNumber(10)
                        ELSE /\ display' = display
                             /\ opacity'[in] = opacity[in]]_vars

\* Page 0 was left by its right button and page 1 by its left button: row 0,
\* faded out to 0.0 by the first transition, is shown again at 1.0.
C12_Witness ==
    /\ mode = "slides"
    /\ Len(tasks) = 2
    /\ tasks[1].callback = [kind |-> "right", index |-> 0]
    /\ tasks[2].callback = [kind |-> "left", index |-> 1]
    /\ tasks[1].completions = 1 /\ tasks[2].completions = 1
    /\ display[0] = "inline" /\ opacity[0] = "1"
    /\ display[1] = "none" /\ opacity[1] = "0"

\* fadeInChildrenProgressively has been called.
Called == timeoutBetweenTextBlocks # NotCalled

\* C13: the children are faded in one at a time in their order: the fade of
\* a child is started only after the fade of the child before it completed
\* and the pause that followed elapsed, at most one fade is pending at any
\* time, the caller's callback runs at most once and only after the fade of
\* the last child completed (in the call itself when there are no children),
\* and, with a scheduler that keeps firing pending timeouts, it does run.
C13_OneChildAtATime ==
    /\ [](mode = "children" =>
            /\ Len(tasks) <= numChildren
            /\ \A t \in DOMAIN tasks :
                  /\ tasks[t].domEl = t - 1
                  /\ tasks[t].dir = "in"
                  /\ t > 1 =>
                        /\ Completed(t - 1)
                        /\ Len(pauses) >= t - 1
                        /\ pauses[t - 1].next = t - 1
                        /\ ~pauses[t - 1].pending
            /\ Cardinality(PendingFades) <= 1
            /\ callbackCalls <= 1
            /\ callbackCalls = 1 =>
                  /\ Len(tasks) = numChildren
                  /\ \A t \in DOMAIN tasks : Completed(t)
            /\ (Called /\ numChildren = 0) =>
                  (callbackCalls = 1 /\ tasks = <<>>))
    /\ (Called ~> callbackCalls = 1)

\* Three children were faded in, the second one through all of its steps
\* from 0.0, and the caller's callback has run.
C13_Witness ==
    /\ mode = "children"
    /\ numChildren = 3
    /\ Len(tasks) = 3
    /\ tasks[2].opacityAtCall = "0" /\ tasks[2].ticks = 11
    /\ callbackCalls = 1

\* The indices of the elements of query.possibleParents that contain
\* query.child.
Holding ==
    {i \in 0..(Len(query.possibleParents) - 1) :
        contains(query.possibleParents[i + 1], query.child)}

\* C14: whichIsParent returns the smallest index whose element contains the
\* child (an element contains itself), -1 exactly when no element does, and
\* the call changes nothing but its return value.
C14_FirstContainer ==
    /\ [](answer # <<>> =>
            /\ answer[1] = -1 <=> Holding = {}
            /\ Holding # {} =>
                  /\ answer[1] \in Holding
                  /\ \A j \in Holding : answer[1] <= j
            /\ \A i \in 0..(Len(query.possibleParents) - 1) :
                  query.possibleParents[i + 1] = query.child => answer[1] <= i)
    /\ [][mode = "resolve" =>
            UNCHANGED <<query, selVars, styleVars, slideVars, thrown>>]_vars

\* Of three elements the first does not contain the child, the second is
\* the child itself and the third is an ancestor of it: the answer is 1.
C14_Witness ==
    /\ answer = <<1>>
    /\ Len(query.possibleParents) = 3
    /\ query.possibleParents[2] = query.child
    /\ query.possibleParents[3] # query.child
    /\ Holding = {1, 2}

\* The attributes of element e other than its opacity.
OtherAttributes(e) == <<display[e], borderColor[e]>>

\* C15: a call of fadeIn or fadeOut and every tick of a fade, the last one
\* with its counting callback included, leave the display and the border
\* colour of the element faded as they are, and leave every attribute of
\* every other element as it is.
C15_OnlyOpacityOfTarget ==
    [][mode = "fade" =>
        \E target \in DOMAIN opacity :
            /\ \/ /\ Len(tasks') = Len(tasks) + 1
                  /\ tasks'[Len(tasks')].domEl = target
               \/ /\ Len(tasks') = Len(tasks)
                  /\ \E t \in PendingFades : tasks[t].domEl = target
            /\ OtherAttributes(target)' = OtherAttributes(target)
            /\ \A e \in DOMAIN opacity \ {target} :
                  /\ opacity'[e] = opacity[e]
                  /\ OtherAttributes(e)' = OtherAttributes(e)]_vars

\* Element 1, hidden, was faded out to its end and is still hidden with its
\* border, while element 0 kept the opacity and display it had.
C15_Witness ==
    /\ mode = "fade"
    /\ DOMAIN opacity = FadePairEls
    /\ Len(tasks) = 1
    /\ tasks[1].domEl = 1 /\ tasks[1].dir = "out"
    /\ tasks[1].opacityAtCall = "1"
    /\ tasks[1].completions = 1
    /\ opacity[1] = "0" /\ display[1] = "none" /\ borderColor[1] = "black"
    /\ opacity[0] = "" /\ display[0] = ""

\* The handlers that have thrown.
Throwers == {x.thrower : x \in thrown}

\* C16: a pointer-enter or pointer-leave event whose target none of the
\* blocks contains raises no fault and changes neither a border colour nor
\* activeIndex, whether a block is selected or not.
C16_UnresolvedHoverIgnored ==
    /\ [](mode = "select" =>
            Throwers \cap {"onmouseenter", "onmouseleave"} = {})
    /\ [][(mode = "select" /\ thrown' # thrown
             /\ Throwers' \ Throwers \subseteq {"onmouseenter", "onmouseleave"})
          => (borderColor' = borderColor /\ activeIndex' = activeIndex)]_vars

\* C17: addSkill never faults; with the name of a skill the player has it
\* returns 'alreadyExists' and leaves the skills as they are, and with a new
\* name it adds {description, value: points} under it and returns 'success'.
C17_AddSkill ==
    /\ [](mode = "player" => "addSkill" \notin Throwers)
    /\ [][(mode = "player" /\ returned'.method = "addSkill"
             /\ (returned' # returned \/ player' # player)) =>
            LET skillName == returned'.args[1]
            IN IF skillName \in DOMAIN player.skills
               THEN returned'.value = "alreadyExists" /\ player' = player
               ELSE /\ returned'.value = "success"
                    /\ player' = [player EXCEPT !.skills =
                            mapSet(@, skillName,
                                   [description |-> returned'.args[2],
                                    value |-> returned'.args[3]])]]_vars

\* C18: every tick of a fade is scheduled with the interval the fade was
\* started with, the rescheduled ticks as well as the first one.  Stated on
\* the fade-outs of the slideshow, which are all started with the
\* slideshow's fadeTimeStep: the delay of every pending timeout is that
\* fadeTimeStep.
C18_EveryTickConfiguredDelay ==
    mode = "slides" =>
        \A t \in PendingFades : tasks[t].fadeTimeStep = fadeTimeStep

\* C19: while the fade-out a click started is pending, the row it will show
\* has display none; the step in which its callback runs hides the row
\* faded out and shows that row; and no fade-in is ever started.
C19_IncomingHiddenUntilDone ==
    /\ [](mode = "slides" =>
            /\ \A t \in PendingFades : display[Incoming(tasks[t])] = "none"
            /\ \A t \in DOMAIN tasks : tasks[t].dir = "out")
    /\ [][mode = "slides" =>
            \A t \in DOMAIN tasks :
                (Len(tasks') = Len(tasks)
                 /\ tasks'[t].completions > tasks[t].completions) =>
                    /\ display'[tasks[t].domEl] = "none"
                    /\ display'[Incoming(tasks[t])] # "none"]_vars

\* C20: a fadeIn that is the only fade on an element whose opacity was 1.0
\* or unset at the call has run no callback when the call returns, fires
\* exactly one timeout, which leaves the opacity at 1.0 and runs the
\* callback, and schedules nothing after it.
C20_FadeInAtFullOpacity ==
    mode = "fade" =>
        \A t \in DOMAIN tasks :
            (SingleFade(t) /\ tasks[t].dir = "in"
             /\ tasks[t].opacityAtCall \in {"", cssNumber(10)}) =>
                /\ opacity[tasks[t].domEl] = cssNumber(10)
                /\ tasks[t].ticks <= 1
                /\ tasks[t].ticks = 0 =>
                      (tasks[t].pending /\ tasks[t].completions = 0)
                /\ tasks[t].ticks = 1 =>
                      (~tasks[t].pending /\ tasks[t].completions = 1)

\* A fadeIn on an element with no opacity set has fired its one timeout.
C20_Witness ==
    /\ mode = "fade"
    /\ Len(tasks) = 1
    /\ SingleFade(1) /\ tasks[1].dir = "in"
    /\ tasks[1].opacityAtCall = ""
    /\ tasks[1].ticks = 1 /\ tasks[1].completions = 1 /\ ~tasks[1].pending
    /\ opacity[tasks[1].domEl] = "1"

\* C21: with at least one child, exactly numChildren - 1 pauses have been
\* started when the caller's callback runs, one between each pair of
\* consecutive children: no pause is started after the fade of the last
\* child.
C21_PausesOnlyBetweenChildren ==
    (mode = "children" /\ numChildren >= 1) =>
        /\ \A p \in DOMAIN pauses : pauses[p].next < numChildren
        /\ callbackCalls >= 1 => Len(pauses) = numChildren - 1

\* C22: every row built by prepareSlideshow has one content cell per div of
\* its page between its two button cells: at most numVisible content cells,
\* none of them empty.
C22_NoEmptyContentCell ==
    mode = "slides" =>
        \A i \in DOMAIN trEls :
            /\ Len(trEls[i].tds) <= numVisible
            /\ \A c \in DOMAIN trEls[i].tds : trEls[i].tds[c] # NoDiv

\* C23: the handler of every navigation button of every row resolves the
\* index of that row from the hidden text, for a click on the button and for
\* a click on its arrow span alike, and the fade a click starts is the
\* fade-out of the row whose button was clicked.
C23_MarkerResolvesOwnPage ==
    /\ [](mode = "slides" =>
            \A i \in DOMAIN trEls, side \in {"left", "right"},
               target \in ClickTargets :
                parseIndex(markerRead(i, side, target)) = i)
    /\ [][(mode = "slides" /\ Len(tasks') = Len(tasks) + 1) =>
            /\ tasks'[Len(tasks')].domEl = lastClick'.page
            /\ tasks'[Len(tasks')].callback.index = lastClick'.page
            /\ tasks'[Len(tasks')].callback.kind = lastClick'.side]_vars

\* The left button of the third of three rows was clicked on its arrow
\* span, and row 2 is being faded out.
C23_Witness ==
    /\ mode = "slides"
    /\ NumPages = 3
    /\ lastClick = [page |-> 2, side |-> "left", target |-> "span"]
    /\ Len(tasks) = 3
    /\ tasks[3].domEl = 2 /\ tasks[3].pending
    /\ tasks[3].callback = [kind |-> "left", index |-> 2]

\* C24: activeIndex is -1 until the first click and only a click changes
\* it.  A pointer-enter or pointer-leave event leaves activeIndex and the
\* border of the active block as they are and changes the border of at most
\* one block, the one entered or left: a block that is not the active one
\* gets mouseOverColor when entered and defaultColor when left.
C24_HoverFrame ==
    /\ [](mode = "select" => (clicks = 0 => activeIndex = -1))
    /\ [][mode = "select" =>
            /\ activeIndex' # activeIndex => clicks' = clicks + 1
            /\ clicks' = clicks =>
                  /\ activeIndex' = activeIndex
                  /\ activeIndex # -1 =>
                        borderColor'[activeIndex] = borderColor[activeIndex]
                  /\ \E i \in DOMAIN borderColor :
                        /\ \A j \in DOMAIN borderColor \ {i} :
                              borderColor'[j] = borderColor[j]
                        /\ borderColor'[i] # borderColor[i] =>
                              \/ i \in over' /\ borderColor'[i] = mouseOverColor
                              \/ i \notin over' /\ borderColor'[i] = defaultColor
                  /\ \A i \in (over' \ over) \ {activeIndex} :
                        borderColor'[i] = mouseOverColor
                  /\ \A i \in (over \ over') \ {activeIndex} :
                        borderColor'[i] = defaultColor]_vars

\* Block 0 is selected and the pointer is over it and over block 1: block 0
\* shows selectedColor, block 1 mouseOverColor and block 2 defaultColor.
C24_Witness ==
    /\ mode = "select"
    /\ activeIndex = 0
    /\ over = {0, 1}
    /\ clicks = 1
    /\ borderColor[0] = selectedColor
    /\ borderColor[1] = mouseOverColor
    /\ borderColor[2] = defaultColor
    /\ ColorsDistinct

====
